---- MODULE Spec2Model ----
(***************************************************************************)
(* Model of the triangular mosaic: the lattice builder genTriangles        *)
(* (src/src/util.ts) followed by the propagation engine and fade sweep of  *)
(* the page script (src/unnamed/part_000).                                 *)
(*                                                                         *)
(* Object references are positions: an Anchor is the number                *)
(* row * cols + col + 1 of its cell, a Triangle is its 1-based position in *)
(* the triangles array, and Nil stands for undefined.  Coordinates are in  *)
(* units of distance/2 (x) and sin(60)*distance (y), with padding = 0.     *)
(* A Color is reduced to its HSL lightness, counted in integer units of    *)
(* which fadeInc is one fade step; hue and saturation are carried along    *)
(* unchanged by offsetHSL(0, 0, -fadeInc) and are not modelled.            *)
(***************************************************************************)
EXTENDS Integers, Sequences, FiniteSets, TLC

\* ---- bounds of the model ----
MaxRows == 3
MaxCols == 3
MaxHeads == 2
\* lightness of the head colour (setHSL(.., 0.7, 0.5)) in model units
InitLightness == 5

\* ---- program constants ----
\* one fade step (fadeInc = 0.001) in model lightness units
fadeInc == 2
favourPrev == 1
favourFading == 2
favourFresh == 20

Nil == 0

VARIABLES rows, cols, heads, pc, cur, anchors, triangles,
          positions, colors, fadingTriangles, animHeads, animPrevHeads,
          animColor, setupColor, h, nextProps, rand,
          tickStartKeys, sweepsSeen

vars == <<rows, cols, heads, pc, cur, anchors, triangles,
          positions, colors, fadingTriangles, animHeads, animPrevHeads,
          animColor, setupColor, h, nextProps, rand,
          tickStartKeys, sweepsSeen>>

latticeVars == <<anchors, triangles>>
animVars == <<positions, colors, fadingTriangles, animHeads, animPrevHeads,
              animColor, setupColor, h, nextProps, rand>>

\* history, not program state: the keys of the fading set when the latest
\* tick began, and for each key the number of sweeps its entry has survived
\* since it was registered
histVars == <<tickStartKeys, sweepsSeen>>

\* ------------------------------------------------------------------------
\* genTriangles: anchors and their neighbour links
\* ------------------------------------------------------------------------

\* anchors[row][col] as a reference
AnchorRef(row, col, C) == row * C + col + 1

NewAnchor_parityFlipped(row, col, R, C) ==
  LET colAnchorLeft == IF row % 2 = 0 THEN col ELSE col - 1
      colAnchorRight == IF row % 2 = 0 THEN col + 1 ELSE col
  IN [x |-> 2 * col + (row % 2), y |-> row,
      aL |-> IF col > 0 THEN AnchorRef(row, col - 1, C) ELSE Nil,
      aR |-> IF col < C - 1 THEN AnchorRef(row, col + 1, C) ELSE Nil,
      aBL |-> IF row > 0 /\ colAnchorLeft >= 0
              THEN AnchorRef(row - 1, colAnchorLeft, C) ELSE Nil,
      aBR |-> IF row > 0 /\ colAnchorRight < C
              THEN AnchorRef(row - 1, colAnchorRight, C) ELSE Nil,
      aTL |-> IF row < R - 1 /\ colAnchorLeft >= 0
              THEN AnchorRef(row + 1, colAnchorLeft, C) ELSE Nil,
      aTR |-> IF row < R - 1 /\ colAnchorRight < C
              THEN AnchorRef(row + 1, colAnchorRight, C) ELSE Nil,
      tT |-> Nil, tB |-> Nil, tLT |-> Nil, tRT |-> Nil,
      tLB |-> Nil, tRB |-> Nil]

\* the anchor built for cell (row, col) with its six neighbour links
NewAnchor(row, col, R, C) ==
  LET colAnchorLeft == IF row % 2 = 0 THEN col - 1 ELSE col
      colAnchorRight == IF row % 2 = 0 THEN col ELSE col + 1
  IN [x |-> 2 * col + (row % 2), y |-> row,
      aL |-> IF col > 0 THEN AnchorRef(row, col - 1, C) ELSE Nil,
      aR |-> IF col < C - 1 THEN AnchorRef(row, col + 1, C) ELSE Nil,
      aBL |-> IF row > 0 /\ colAnchorLeft >= 0
              THEN AnchorRef(row - 1, colAnchorLeft, C) ELSE Nil,
      aBR |-> IF row > 0 /\ colAnchorRight < C
              THEN AnchorRef(row - 1, colAnchorRight, C) ELSE Nil,
      aTL |-> IF row < R - 1 /\ colAnchorLeft >= 0
              THEN AnchorRef(row + 1, colAnchorLeft, C) ELSE Nil,
      aTR |-> IF row < R - 1 /\ colAnchorRight < C
              THEN AnchorRef(row + 1, colAnchorRight, C) ELSE Nil,
      tT |-> Nil, tB |-> Nil, tLT |-> Nil, tRT |-> Nil,
      tLB |-> Nil, tRB |-> Nil]

\* number of anchors of an R x C grid (no rows or no columns: none)
AnchorCount(R, C) == IF R > 0 /\ C > 0 THEN R * C ELSE 0

GenAnchors(R, C) ==
  [a \in 1..AnchorCount(R, C) |-> NewAnchor((a - 1) \div C, (a - 1) % C, R, C)]

\* ------------------------------------------------------------------------
\* genTriangles: triangle slots of one anchor
\* ------------------------------------------------------------------------

NewTriangle(aL, aR, aT, aB) ==
  [aL |-> aL, aR |-> aR, aT |-> aT, aB |-> aB, i |-> -1,
   tL |-> Nil, tR |-> Nil, tT |-> Nil, tB |-> Nil, position |-> <<>>]

\* triangles.push(a[s0] = n1[s1] = n2[s2] = tri)
PushTriangle(st, tri, a, s0, n1, s1, n2, s2) ==
  LET ref == Len(st.triangles) + 1
  IN [anchors |-> [st.anchors EXCEPT ![a][s0] = ref, ![n1][s1] = ref,
                                     ![n2][s2] = ref],
      triangles |-> Append(st.triangles, tri)]

SlotT(st, a) ==
  LET an == st.anchors[a]
  IN IF an.tT = Nil /\ an.aTL # Nil /\ an.aTR # Nil
     THEN PushTriangle(st, NewTriangle(an.aTL, an.aTR, Nil, a),
                       a, "tT", an.aTL, "tRB", an.aTR, "tLB")
     ELSE st

SlotB_unguarded(st, a) ==
  LET an == st.anchors[a]
  IN IF an.aBL # Nil /\ an.aBR # Nil
     THEN PushTriangle(st, NewTriangle(an.aBL, an.aBR, a, Nil),
                       a, "tB", an.aBL, "tRT", an.aBR, "tLT")
     ELSE st

SlotB(st, a) ==
  LET an == st.anchors[a]
  IN IF an.tB = Nil /\ an.aBL # Nil /\ an.aBR # Nil
     THEN PushTriangle(st, NewTriangle(an.aBL, an.aBR, a, Nil),
                       a, "tB", an.aBL, "tRT", an.aBR, "tLT")
     ELSE st

SlotLT(st, a) ==
  LET an == st.anchors[a]
  IN IF an.tLT = Nil /\ an.aL # Nil /\ an.aTL # Nil
     THEN PushTriangle(st, NewTriangle(an.aL, a, an.aTL, Nil),
                       a, "tLT", an.aL, "tRT", an.aTL, "tB")
     ELSE st

SlotRT_bothTips(st, a) ==
  LET an == st.anchors[a]
  IN IF an.tRT = Nil /\ an.aR # Nil /\ an.aTR # Nil
     THEN PushTriangle(st, NewTriangle(a, an.aR, an.aTR, an.aBR),
                       a, "tRT", an.aR, "tLT", an.aTR, "tB")
     ELSE st

SlotRT_wrongTipSlot(st, a) ==
  LET an == st.anchors[a]
  IN IF an.tRT = Nil /\ an.aR # Nil /\ an.aTR # Nil
     THEN PushTriangle(st, NewTriangle(a, an.aR, an.aTR, Nil),
                       a, "tRT", an.aR, "tLT", an.aTR, "tT")
     ELSE st

SlotRT(st, a) ==
  LET an == st.anchors[a]
  IN IF an.tRT = Nil /\ an.aR # Nil /\ an.aTR # Nil
     THEN PushTriangle(st, NewTriangle(a, an.aR, an.aTR, Nil),
                       a, "tRT", an.aR, "tLT", an.aTR, "tB")
     ELSE st

SlotLB(st, a) ==
  LET an == st.anchors[a]
  IN IF an.tLB = Nil /\ an.aL # Nil /\ an.aBL # Nil
     THEN PushTriangle(st, NewTriangle(an.aL, a, Nil, an.aBL),
                       a, "tLB", an.aL, "tRB", an.aBL, "tT")
     ELSE st

SlotRB(st, a) ==
  LET an == st.anchors[a]
  IN IF an.tRB = Nil /\ an.aR # Nil /\ an.aBR # Nil
     THEN PushTriangle(st, NewTriangle(a, an.aR, Nil, an.aBR),
                       a, "tRB", an.aR, "tLB", an.aBR, "tT")
     ELSE st

\* the six tests of one iteration of the anchor loop, in source order
AnchorSlots(st, a) ==
  SlotRB(SlotLB(SlotRT(SlotLT(SlotB(SlotT(st, a), a), a), a), a), a)

\* ------------------------------------------------------------------------
\* genTriangles: triangle neighbours and positions
\* ------------------------------------------------------------------------

isPointingUp(tri) == tri.aT # Nil

triangleTipProp(tri) == IF isPointingUp(tri) THEN "aT" ELSE "aB"

triangleBackProp(tri) == IF isPointingUp(tri) THEN "tB" ELSE "tT"

Vertex(an) == <<an.x, an.y, 0>>

ResolveTriangle_swappedSides(tri, i, anc) ==
  IF isPointingUp(tri)
  THEN [tri EXCEPT !.i = i,
          !.tL = anc[tri.aR].tT,
          !.tR = anc[tri.aL].tT,
          !.tB = anc[tri.aR].tLB,
          !.position = Vertex(anc[tri.aT]) \o Vertex(anc[tri.aR])
                       \o Vertex(anc[tri.aL])]
  ELSE [tri EXCEPT !.i = i,
          !.tL = anc[tri.aR].tB,
          !.tR = anc[tri.aL].tB,
          !.tT = anc[tri.aR].tLT,
          !.position = Vertex(anc[tri.aB]) \o Vertex(anc[tri.aL])
                       \o Vertex(anc[tri.aR])]

ResolveTriangle_backViaLeft(tri, i, anc) ==
  IF isPointingUp(tri)
  THEN [tri EXCEPT !.i = i,
          !.tL = anc[tri.aL].tT,
          !.tR = anc[tri.aR].tT,
          !.tB = anc[tri.aL].tLB,
          !.position = Vertex(anc[tri.aT]) \o Vertex(anc[tri.aR])
                       \o Vertex(anc[tri.aL])]
  ELSE [tri EXCEPT !.i = i,
          !.tL = anc[tri.aL].tB,
          !.tR = anc[tri.aR].tB,
          !.tT = anc[tri.aR].tLT,
          !.position = Vertex(anc[tri.aB]) \o Vertex(anc[tri.aL])
                       \o Vertex(anc[tri.aR])]

\* the body of triangles.forEach((tri, i) => ...) for one triangle
ResolveTriangle(tri, i, anc) ==
  IF isPointingUp(tri)
  THEN [tri EXCEPT !.i = i,
          !.tL = anc[tri.aL].tT,
          !.tR = anc[tri.aR].tT,
          !.tB = anc[tri.aR].tLB,
          !.position = Vertex(anc[tri.aT]) \o Vertex(anc[tri.aR])
                       \o Vertex(anc[tri.aL])]
  ELSE [tri EXCEPT !.i = i,
          !.tL = anc[tri.aL].tB,
          !.tR = anc[tri.aR].tB,
          !.tT = anc[tri.aR].tLT,
          !.position = Vertex(anc[tri.aB]) \o Vertex(anc[tri.aL])
                       \o Vertex(anc[tri.aR])]

\* ------------------------------------------------------------------------
\* Propagation engine and fade model: helpers
\* ------------------------------------------------------------------------

\* a Color object: either the one object created by preAnimationSetup, whose
\* value is setupColor and which every holder shares, or an object of its own
SetupColorRef == [shared |-> TRUE, l |-> 0]

OwnColor(l) == [shared |-> FALSE, l |-> l]

\* hsl.l of a colour, sc being the current value of the setup colour object
Lightness(color, sc) == IF color.shared THEN sc ELSE color.l

AnimatedTriangle_indexOffByOne(triangle, index, color) ==
  [triangle |-> triangle, index |-> index + 1, color |-> color]

\* new AnimatedTriangle(triangle, index, color)
AnimatedTriangle(triangle, index, color) ==
  [triangle |-> triangle, index |-> index, color |-> color]

\* an unset element of animPrevHeads
NoHead == [triangle |-> Nil, index |-> -1]

\* the keys of the map
MapKeys(m) == {m[k].key : k \in 1..Len(m)}

\* fadingTriangles.has(key)
MapHas(m, key) == \E k \in 1..Len(m) : m[k].key = key

MapSet_dropped(m, key, val) == m

MapSet_stacking(m, key, val) == Append(m, [key |-> key, val |-> val])

\* fadingTriangles.set(key, val): an existing key keeps its place
MapSet(m, key, val) ==
  IF MapHas(m, key)
  THEN [k \in 1..Len(m) |-> IF m[k].key = key THEN [key |-> key, val |-> val]
                            ELSE m[k]]
  ELSE Append(m, [key |-> key, val |-> val])

\* tri[prop] for the neighbour props
TriProp(tri, prop) ==
  CASE prop = "tL" -> tri.tL
    [] prop = "tR" -> tri.tR
    [] prop = "tT" -> tri.tT
    [] prop = "tB" -> tri.tB

BaseFavour_noBacktrack(neighborTri, prevTri, fading) ==
  IF neighborTri = Nil THEN 0
  ELSE IF neighborTri = prevTri THEN 0
  ELSE IF MapHas(fading, neighborTri) THEN favourFading
  ELSE favourFresh

BaseFavour_fadingFirst(neighborTri, prevTri, fading) ==
  IF neighborTri = Nil THEN 0
  ELSE IF MapHas(fading, neighborTri) THEN favourFading
  ELSE IF neighborTri = prevTri THEN favourPrev
  ELSE favourFresh

\* baseFavour of one candidate
BaseFavour(neighborTri, prevTri, fading) ==
  IF neighborTri = Nil THEN 0
  ELSE IF neighborTri = prevTri THEN favourPrev
  ELSE IF MapHas(fading, neighborTri) THEN favourFading
  ELSE favourFresh

\* neighborProps.map(...) of the head on triangle tri
NextProps(tri, prevTri, fading) ==
  LET neighborProps == <<"tL", "tR", triangleBackProp(tri)>>
  IN [k \in 1..3 |->
        [prop |-> neighborProps[k],
         tri |-> TriProp(tri, neighborProps[k]),
         favour |-> BaseFavour(TriProp(tri, neighborProps[k]), prevTri,
                               fading)]]

\* nextProps.reduce((sum, np) => sum + np.favour, 0)
TotalFavour(nps) == nps[1].favour + nps[2].favour + nps[3].favour

\* the forEach that replaces each favour by the running sum
Cumulate(nps) ==
  [k \in 1..3 |->
     [nps[k] EXCEPT !.favour =
        IF k = 1 THEN nps[1].favour
        ELSE IF k = 2 THEN nps[1].favour + nps[2].favour
        ELSE nps[1].favour + nps[2].favour + nps[3].favour]]

FindSelected_inclusive(nps, r) ==
  IF r <= nps[1].favour THEN 1
  ELSE IF r <= nps[2].favour THEN 2
  ELSE IF r <= nps[3].favour THEN 3
  ELSE 0

\* nextProps.find(np => rand < np.favour), as a position; 0 when none
FindSelected(nps, r) ==
  IF r < nps[1].favour THEN 1
  ELSE IF r < nps[2].favour THEN 2
  ELSE IF r < nps[3].favour THEN 3
  ELSE 0

\* AnimatedTriangle.animate() and isFaded() on a lightness value
Darken_none(l) == l

Darken(l) == IF l - fadeInc < 0 THEN 0 ELSE l - fadeInc

IsFadedL(l) == l < fadeInc

AnimateL_noSnap(l) == Darken(l)

AnimateL(l) == IF IsFadedL(Darken(l)) THEN 0 ELSE Darken(l)

\* anim.getPositions(): the class in util.ts has no such method; taken from
\* the design, which never repositions a triangle
getPositions(anim, tris) == tris[anim.triangle].position

SweepEntry_paintsNext(st, k, tris) ==
  LET anim == st.m[k].val
      l == AnimateL(Lightness(anim.color, st.sc))
  IN [sc |-> IF anim.color.shared THEN l ELSE st.sc,
      m |-> IF anim.color.shared THEN st.m
            ELSE [st.m EXCEPT ![k].val.color.l = l],
      colors |-> [st.colors EXCEPT ![anim.index + 1] = l],
      positions |-> [st.positions EXCEPT ![tris[st.m[k].key].i] =
                        getPositions(anim, tris)],
      del |-> IF IsFadedL(l) THEN st.del \cup {k} ELSE st.del]

\* the body of fadingTriangles.forEach for the entry at position k
SweepEntry(st, k, tris) ==
  LET anim == st.m[k].val
      l == AnimateL(Lightness(anim.color, st.sc))
  IN [sc |-> IF anim.color.shared THEN l ELSE st.sc,
      m |-> IF anim.color.shared THEN st.m
            ELSE [st.m EXCEPT ![k].val.color.l = l],
      colors |-> [st.colors EXCEPT ![anim.index] = l],
      positions |-> [st.positions EXCEPT ![tris[st.m[k].key].i] =
                        getPositions(anim, tris)],
      del |-> IF IsFadedL(l) THEN st.del \cup {k} ELSE st.del]

RECURSIVE SweepFrom(_, _, _)
SweepFrom(st, k, tris) ==
  IF k > Len(st.m) THEN st
  ELSE SweepFrom(SweepEntry(st, k, tris), k + 1, tris)

\* entries of m whose position is not in del, in order
RECURSIVE Surviving(_, _, _)
Surviving(m, del, k) ==
  IF k > Len(m) THEN <<>>
  ELSE IF k \in del THEN Surviving(m, del, k + 1)
  ELSE <<m[k]>> \o Surviving(m, del, k + 1)

\* ------------------------------------------------------------------------
\* Initial state and actions
\* ------------------------------------------------------------------------

Init ==
  /\ rows \in 0..MaxRows
  /\ cols \in 0..MaxCols
  /\ heads \in 1..MaxHeads
  /\ pc = "start"
  /\ cur = 0
  /\ anchors = <<>>
  /\ triangles = <<>>
  /\ positions = <<>>
  /\ colors = <<>>
  /\ fadingTriangles = <<>>
  /\ animHeads = <<>>
  /\ animPrevHeads = [k \in 1..heads |-> NoHead]
  /\ animColor = SetupColorRef
  /\ setupColor = 0
  /\ h = 0
  /\ nextProps = <<>>
  /\ rand = 0
  /\ tickStartKeys = {}
  /\ sweepsSeen = <<>>

\* genTriangles, util.ts 139-174: the anchor grid and its links
BuildAnchors ==
  /\ pc = "start"
  /\ anchors' = GenAnchors(rows, cols)
  /\ pc' = "slots"
  /\ cur' = 1
  /\ UNCHANGED <<rows, cols, heads, triangles, animVars, histVars>>

\* genTriangles, util.ts 178-200: one iteration of the anchor loop
BuildSlots ==
  /\ pc = "slots"
  /\ cur <= AnchorCount(rows, cols)
  /\ LET st == AnchorSlots([anchors |-> anchors, triangles |-> triangles], cur)
     IN /\ anchors' = st.anchors
        /\ triangles' = st.triangles
  /\ cur' = cur + 1
  /\ UNCHANGED <<rows, cols, heads, pc, animVars, histVars>>

\* genTriangles, util.ts 203-207: anchors[rows - 1][cols - 1].x throws a
\* TypeError when there is no such anchor
GlobalCenter ==
  /\ pc = "slots"
  /\ cur > AnchorCount(rows, cols)
  /\ IF rows >= 1 /\ cols >= 1
     THEN pc' = "resolve" /\ cur' = 1
     ELSE pc' = "genTrianglesThrew" /\ cur' = 0
  /\ UNCHANGED <<rows, cols, heads, latticeVars, animVars, histVars>>

\* genTriangles, util.ts 208-235: one call of the forEach callback
ResolveNeighbors ==
  /\ pc = "resolve"
  /\ cur <= Len(triangles)
  /\ triangles' = [triangles EXCEPT
                     ![cur] = ResolveTriangle(triangles[cur], cur - 1, anchors)]
  /\ cur' = cur + 1
  /\ UNCHANGED <<rows, cols, heads, pc, anchors, animVars, histVars>>

\* genTriangles returns; init() fills the position and colour buffers
InitBuffers ==
  /\ pc = "resolve"
  /\ cur > Len(triangles)
  /\ UNCHANGED histVars
  /\ positions' = [i \in 0..(Len(triangles) - 1) |-> triangles[i + 1].position]
  /\ colors' = [i \in 0..(Len(triangles) - 1) |-> 0]
  /\ pc' = "setup"
  /\ cur' = 0
  /\ UNCHANGED <<rows, cols, heads, latticeVars, fadingTriangles, animHeads,
                 animPrevHeads, animColor, setupColor, h, nextProps, rand>>

\* preAnimationSetup: Math.floor(Math.random() * triangles.length) per head;
\* triangles[idx] is undefined when the array is empty
PreAnimationSetup ==
  /\ pc = "setup"
  /\ UNCHANGED histVars
  /\ \E idx \in [1..heads -> 0..(IF Len(triangles) = 0 THEN 0
                                ELSE Len(triangles) - 1)] :
       animHeads' = [k \in 1..heads |->
                       AnimatedTriangle(IF idx[k] < Len(triangles)
                                        THEN idx[k] + 1 ELSE Nil,
                                        idx[k], SetupColorRef)]
  /\ animColor' = SetupColorRef
  /\ setupColor' = InitLightness
  /\ pc' = "ready"
  /\ UNCHANGED <<rows, cols, heads, cur, latticeVars, positions, colors,
                 fadingTriangles, animPrevHeads, h, nextProps, rand>>

\* animate() is entered: first call, or the scheduled animation frame
AnimateBegin ==
  /\ pc \in {"ready", "idle"}
  /\ tickStartKeys' = MapKeys(fadingTriangles)
  /\ UNCHANGED sweepsSeen
  /\ pc' = "weigh"
  /\ h' = 0
  /\ UNCHANGED <<rows, cols, heads, cur, latticeVars, positions, colors,
                 fadingTriangles, animHeads, animPrevHeads, animColor,
                 setupColor, nextProps, rand>>

\* animate, part_000 92-117: the candidates of head h and their base favour;
\* triangleBackProp throws on an undefined triangle
HeadWeigh ==
  /\ pc = "weigh"
  /\ UNCHANGED histVars
  /\ IF animHeads[h + 1].triangle = Nil
     THEN pc' = "animateThrew" /\ nextProps' = nextProps
     ELSE /\ nextProps' = NextProps(triangles[animHeads[h + 1].triangle],
                                    animPrevHeads[h + 1].triangle,
                                    fadingTriangles)
          /\ pc' = "draw"
  /\ UNCHANGED <<rows, cols, heads, cur, latticeVars, positions, colors,
                 fadingTriangles, animHeads, animPrevHeads, animColor,
                 setupColor, h, rand>>

\* animate, part_000 119-125: cumulative favours and the random draw; rand is
\* the integer part of Math.random() * totalFavour
HeadDraw ==
  /\ pc = "draw"
  /\ UNCHANGED histVars
  /\ \E r \in 0..(3 * favourFresh - 1) :
       /\ r < TotalFavour(nextProps) \/ (TotalFavour(nextProps) = 0 /\ r = 0)
       /\ rand' = r
  /\ nextProps' = Cumulate(nextProps)
  /\ pc' = "move"
  /\ UNCHANGED <<rows, cols, heads, cur, latticeVars, positions, colors,
                 fadingTriangles, animHeads, animPrevHeads, animColor,
                 setupColor, h>>

\* animate, part_000 126-132: select, move the head, register the vacated
\* triangle; nextNeighbor.i throws when nothing was selected
HeadMove ==
  /\ pc = "move"
  /\ LET sel == FindSelected(nextProps, rand)
         nextNeighbor == IF sel = 0 THEN Nil ELSE nextProps[sel].tri
     IN IF nextNeighbor = Nil
        THEN /\ pc' = "animateThrew"
             /\ UNCHANGED <<animHeads, animPrevHeads, fadingTriangles, h,
                            sweepsSeen>>
        ELSE /\ animPrevHeads' =
                  [animPrevHeads EXCEPT ![h + 1] =
                     [triangle |-> animHeads[h + 1].triangle,
                      index |-> animHeads[h + 1].index]]
             /\ animHeads' =
                  [animHeads EXCEPT ![h + 1] =
                     AnimatedTriangle(nextNeighbor, triangles[nextNeighbor].i,
                        OwnColor(Lightness(animColor, setupColor)))]
             /\ fadingTriangles' = MapSet(fadingTriangles,
                                          animHeads[h + 1].triangle,
                                          animHeads[h + 1])
             /\ sweepsSeen' =
                  [T \in MapKeys(fadingTriangles') |->
                     IF T = animHeads[h + 1].triangle THEN 0 ELSE sweepsSeen[T]]
             /\ h' = h + 1
             /\ pc' = IF h + 1 < heads THEN "weigh" ELSE "sweep"
  /\ nextProps' = <<>>
  /\ rand' = 0
  /\ UNCHANGED tickStartKeys
  /\ UNCHANGED <<rows, cols, heads, cur, latticeVars, positions, colors,
                 animColor, setupColor>>

\* animate, part_000 134-164: the new base colour, the fade sweep over the
\* whole fading set, and the next frame is scheduled
Sweep ==
  /\ pc = "sweep"
  /\ animColor' = OwnColor(Lightness(animColor, setupColor))
  /\ LET st == SweepFrom([sc |-> setupColor, m |-> fadingTriangles,
                          colors |-> colors, positions |-> positions,
                          del |-> {}], 1, triangles)
     IN /\ setupColor' = st.sc
        /\ colors' = st.colors
        /\ positions' = st.positions
        /\ fadingTriangles' = Surviving(st.m, st.del, 1)
  /\ UNCHANGED tickStartKeys
  /\ sweepsSeen' = [T \in MapKeys(fadingTriangles') |-> sweepsSeen[T] + 1]
  /\ pc' = "idle"
  /\ UNCHANGED <<rows, cols, heads, cur, latticeVars, animHeads,
                 animPrevHeads, h, nextProps, rand>>

Next ==
  \/ BuildAnchors
  \/ BuildSlots
  \/ GlobalCenter
  \/ ResolveNeighbors
  \/ InitBuffers
  \/ PreAnimationSetup
  \/ AnimateBegin
  \/ HeadWeigh
  \/ HeadDraw
  \/ HeadMove
  \/ Sweep

Spec == Init /\ [][Next]_vars

\* ------------------------------------------------------------------------
\* Properties of the lattice builder
\* ------------------------------------------------------------------------

\* genTriangles has returned its triangle list
LatticeBuilt == pc \notin {"start", "slots", "resolve", "genTrianglesThrew"}

TriRefs == 1..Len(triangles)

\* the neighbour across the edge opposite the tip
Back(t) == IF triangles[t].aT # Nil THEN triangles[t].tB ELSE triangles[t].tT

NeighbourSlots(t) == <<triangles[t].tL, triangles[t].tR, Back(t)>>

\* C1: in a lattice built with rows >= 2 and cols >= 2 adjacency is symmetric
\* with matching slots: A.tL = B implies B.tR = A, A.tR = B implies
\* B.tL = A, and A's back slot = B implies B's back slot = A; a populated slot
\* always names a triangle of the list.
C1_AdjacencySymmetric ==
  (LatticeBuilt /\ rows >= 2 /\ cols >= 2) =>
    \A A \in TriRefs :
      /\ \A k \in 1..3 : NeighbourSlots(A)[k] \in TriRefs \cup {Nil}
      /\ \A B \in TriRefs :
           /\ triangles[A].tL = B => triangles[B].tR = A
           /\ triangles[A].tR = B => triangles[B].tL = A
           /\ Back(A) = B => Back(B) = A

\* a built 3 x 3 lattice in which some triangle has all three neighbours
C1_Witness ==
  /\ LatticeBuilt /\ rows = 3 /\ cols = 3
  /\ \E A \in TriRefs : \A k \in 1..3 : NeighbourSlots(A)[k] \in TriRefs

\* C9: the claim that genTriangles completes without raising an error for
\* every rows < 2 or cols < 2, zero included.
C9_DegenerateNeverThrows ==
  (rows < 2 \/ cols < 2) => pc # "genTrianglesThrew"

\* the three corner anchors of a triangle
Corners(t) ==
  {triangles[t].aL, triangles[t].aR, triangles[t].aT, triangles[t].aB} \ {Nil}

\* the anchor triples of the six-orientation slot rule, read off the links
SlotRuleTriples ==
  LET Triple(a, n1, n2) == IF n1 # Nil /\ n2 # Nil THEN {{a, n1, n2}} ELSE {}
  IN UNION {Triple(a, anchors[a].aTL, anchors[a].aTR)
            \cup Triple(a, anchors[a].aBL, anchors[a].aBR)
            \cup Triple(a, anchors[a].aL, anchors[a].aTL)
            \cup Triple(a, anchors[a].aR, anchors[a].aTR)
            \cup Triple(a, anchors[a].aL, anchors[a].aBL)
            \cup Triple(a, anchors[a].aR, anchors[a].aBR)
            : a \in DOMAIN anchors}

\* C10: the returned list holds every anchor triple of the slot rule exactly
\* once, each triangle's i is its position, and for rows, cols >= 2 there are
\* 2 * (rows - 1) * (cols - 1) triangles (8 for a 3 x 3 grid).
C10_EachTripleOnce ==
  LatticeBuilt =>
    /\ {Corners(t) : t \in TriRefs} = SlotRuleTriples
    /\ \A s, t \in TriRefs : Corners(s) = Corners(t) => s = t
    /\ \A t \in TriRefs : triangles[t].i = t - 1
    /\ (rows >= 2 /\ cols >= 2) =>
         Len(triangles) = 2 * (rows - 1) * (cols - 1)
    /\ (rows = 3 /\ cols = 3) => Len(triangles) = 8

\* a built 3 x 3 lattice with its 8 triangles
C10_Witness ==
  LatticeBuilt /\ rows = 3 /\ cols = 3 /\ Len(triangles) = 8

\* ------------------------------------------------------------------------
\* Properties of the propagation engine and the fade sweep
\* ------------------------------------------------------------------------

Animating == pc \in {"ready", "idle", "weigh", "draw", "move", "sweep"}

HeadRefs == 1..heads

\* the favour of candidate k before and after the running sum is taken
CumFavour(k) == IF k = 0 THEN 0 ELSE nextProps[k].favour

Weight(k) == CumFavour(k) - CumFavour(k - 1)

\* the first candidate whose cumulative favour exceeds the draw r
FirstExceeding(r) ==
  CHOOSE k \in 1..3 : r < CumFavour(k) /\ \A j \in 1..(k - 1) : r >= CumFavour(j)

\* C2: with rows, cols >= 2 every head always sits on a triangle of the
\* lattice that has a present neighbour, the total favour of every transition
\* is positive, the draw always selects a defined triangle, and animate never
\* throws.
C2_HeadsNeverStuck ==
  (rows >= 2 /\ cols >= 2) =>
    /\ pc # "animateThrew"
    /\ Animating =>
         \A k \in HeadRefs :
           /\ animHeads[k].triangle \in TriRefs
           /\ \E j \in 1..3 : NeighbourSlots(animHeads[k].triangle)[j] # Nil
    /\ pc = "draw" => TotalFavour(nextProps) > 0
    /\ pc = "move" =>
         /\ CumFavour(3) > 0
         /\ \E k \in 1..3 : rand < CumFavour(k)
         /\ nextProps[FirstExceeding(rand)].tri \in TriRefs

\* a head, after its first move, whose only present neighbour is the triangle
\* it came from, about to select
C2_Witness ==
  /\ rows >= 2 /\ cols >= 2 /\ pc = "move"
  /\ animPrevHeads[h + 1].triangle # Nil
  /\ CumFavour(3) = favourPrev

\* C3: the selected candidate is the first one whose running cumulative
\* favour exceeds the draw, a candidate of weight 0 is never selected, and
\* over the draws 0..W-1 each candidate is selected for exactly as many draws
\* as its weight.
C3_WeightedSelection ==
  [][(pc = "move" /\ CumFavour(3) > 0) =>
       /\ rand \in 0..(CumFavour(3) - 1)
       /\ pc' # "animateThrew"
       /\ animHeads'[h + 1].triangle = nextProps[FirstExceeding(rand)].tri
       /\ Weight(FirstExceeding(rand)) > 0
       /\ \A k \in 1..3 :
            Cardinality({r \in 0..(CumFavour(3) - 1) :
                           FindSelected(nextProps, r) = k}) = Weight(k)
    ]_vars

\* a head about to select among weights [20, 1, 2]
C3_Witness ==
  /\ pc = "move"
  /\ Weight(1) = 20 /\ Weight(2) = 1 /\ Weight(3) = 2

\* the triangles that are keys of the fading set
FadingKeys == {fadingTriangles[k].key : k \in 1..Len(fadingTriangles)}

\* C4's weight of candidate slot k of head h
ClaimedFavour(k) ==
  LET cand == NeighbourSlots(animHeads[h + 1].triangle)[k]
  IN CASE cand = Nil -> 0
       [] cand # Nil /\ cand = animPrevHeads[h + 1].triangle -> 1
       [] cand # Nil /\ cand # animPrevHeads[h + 1].triangle
          /\ cand \in FadingKeys -> 2
       [] OTHER -> 20

\* C4: the favour computed for each of the three candidate slots (tL, tR,
\* back) is 0 for an absent slot, else 1 for the head's previous triangle
\* (even if it is fading), else 2 for a key of the fading set, else 20.
C4_FavourWeights ==
  pc = "draw" =>
    \A k \in 1..3 :
      /\ nextProps[k].tri = NeighbourSlots(animHeads[h + 1].triangle)[k]
      /\ nextProps[k].favour = ClaimedFavour(k)

\* the candidates hold the previous triangle while it is fading, and another
\* fading triangle
C4_Witness ==
  /\ pc = "draw"
  /\ \E k \in 1..3 : /\ nextProps[k].tri = animPrevHeads[h + 1].triangle
                     /\ nextProps[k].tri \in FadingKeys
                     /\ nextProps[k].favour = 1
  /\ \E k \in 1..3 : nextProps[k].favour = 2

\* lightness of the colour of the k-th entry of a fading map
EntryLight(m, k, sc) == Lightness(m[k].val.color, sc)

\* one fade step off l, or black when less than a step is left
OneStepDarker(l) == IF l - fadeInc < fadeInc THEN 0 ELSE l - fadeInc

\* C5: the claim that a sweep darkens every entry of the fading set by
\* exactly one fade step, in what stays in the set and in what is written to
\* the colour buffer.
C5_OneStepPerSweep ==
  [][pc = "sweep" =>
       \A k \in 1..Len(fadingTriangles) :
         /\ colors'[fadingTriangles[k].val.index] =
              OneStepDarker(EntryLight(fadingTriangles, k, setupColor))
         /\ \A j \in 1..Len(fadingTriangles') :
              fadingTriangles'[j].key = fadingTriangles[k].key =>
                EntryLight(fadingTriangles', j, setupColor') =
                  OneStepDarker(EntryLight(fadingTriangles, k, setupColor))
    ]_vars

C7_RegistrationReplaces ==
  [][/\ \A i, j \in 1..Len(fadingTriangles') :
          fadingTriangles'[i].key = fadingTriangles'[j].key => i = j
     /\ (pc = "move" /\ pc' # "animateThrew") =>
          \E k \in 1..Len(fadingTriangles') :
            /\ fadingTriangles'[k].key = animHeads[h + 1].triangle
            /\ EntryLight(fadingTriangles', k, setupColor') = InitLightness
            /\ EntryLight(fadingTriangles', k, setupColor') =
                 Lightness(animHeads[h + 1].color, setupColor)
    ]_vars

\* the triangle just vacated sits in the map before an entry of an earlier
\* tick, so its key was already there when it was registered
C7_Witness ==
  /\ pc \in {"weigh", "sweep"} /\ h >= 1
  /\ \E k, j \in 1..Len(fadingTriangles) :
       /\ k < j
       /\ fadingTriangles[k].key = animPrevHeads[h].triangle
       /\ EntryLight(fadingTriangles, k, setupColor) = InitLightness
       /\ EntryLight(fadingTriangles, j, setupColor) < InitLightness

\* C8: the claim that after every tick the colour buffer shows each head's
\* current triangle at that head's colour.
C8_ResidentAtHeadColour ==
  pc = "idle" =>
    \A k \in HeadRefs :
      colors[animHeads[k].index] = Lightness(animHeads[k].color, setupColor)

\* ------------------------------------------------------------------------
\* Further properties of the lattice builder
\* ------------------------------------------------------------------------

\* the six neighbour anchors of an anchor that are present
LinkedAnchors(a) ==
  {anchors[a].aL, anchors[a].aR, anchors[a].aTL, anchors[a].aTR,
   anchors[a].aBL, anchors[a].aBR} \ {Nil}

\* C11: for rows, cols >= 2 every triangle has a left and a right anchor and
\* exactly one of the tip anchors aT / aB, and its three corners are distinct
\* anchors that are pairwise linked as lattice neighbours.
C11_TriangleShape ==
  (rows >= 2 /\ cols >= 2) =>
    \A t \in TriRefs :
      /\ triangles[t].aL \in DOMAIN anchors
      /\ triangles[t].aR \in DOMAIN anchors
      /\ (triangles[t].aT = Nil) # (triangles[t].aB = Nil)
      /\ Corners(t) \subseteq DOMAIN anchors
      /\ Cardinality(Corners(t)) = 3
      /\ \A a, b \in Corners(t) : a # b => b \in LinkedAnchors(a)

\* a built 3 x 3 lattice holding a triangle pointing up and one pointing down
C11_Witness ==
  /\ LatticeBuilt /\ rows = 3 /\ cols = 3
  /\ \E s, t \in TriRefs : triangles[s].aT # Nil /\ triangles[t].aB # Nil

\* the other triangles that have both anchors of an edge as corners
OthersOnEdge(t, a, b) == {s \in TriRefs \ {t} : {a, b} \subseteq Corners(s)}

\* the tip anchor of a triangle
Tip(t) == IF triangles[t].aT # Nil THEN triangles[t].aT ELSE triangles[t].aB

\* slot holds the one other triangle on the edge, or is absent when none is
SlotIsEdgeNeighbour(slot, others) ==
  IF slot = Nil THEN others = {} ELSE others = {slot}

\* C15: tL is the other triangle on the edge left anchor - tip, tR the other
\* triangle on the edge right anchor - tip, the back neighbour the other
\* triangle on the edge left anchor - right anchor, and a slot is absent
\* exactly when no other triangle shares that edge.
C15_NeighboursShareEdges ==
  (LatticeBuilt /\ rows >= 2 /\ cols >= 2) =>
    \A t \in TriRefs :
      /\ SlotIsEdgeNeighbour(triangles[t].tL,
                             OthersOnEdge(t, triangles[t].aL, Tip(t)))
      /\ SlotIsEdgeNeighbour(triangles[t].tR,
                             OthersOnEdge(t, triangles[t].aR, Tip(t)))
      /\ SlotIsEdgeNeighbour(Back(t),
                             OthersOnEdge(t, triangles[t].aL, triangles[t].aR))
      /\ IF triangles[t].aT # Nil THEN triangles[t].tT = Nil
         ELSE triangles[t].tB = Nil

\* a built 3 x 3 lattice with a boundary edge (absent slot) on one triangle
\* and the three neighbours present on another
C15_Witness ==
  /\ LatticeBuilt /\ rows = 3 /\ cols = 3
  /\ \E t \in TriRefs : triangles[t].tL = Nil /\ triangles[t].tR # Nil
  /\ \E t \in TriRefs : Back(t) = Nil
  /\ \E t \in TriRefs : \A k \in 1..3 : NeighbourSlots(t)[k] # Nil

\* the anchor loop of genTriangles has run to its end
SlotsDone == pc \notin {"start", "slots"}

\* slot s of anchor a is populated exactly when n1 and n2 exist
SlotIffBoth(s, n1, n2) == (s # Nil) <=> (n1 # Nil /\ n2 # Nil)

\* C18: each of the six triangle slots of an anchor is populated iff both
\* neighbour anchors of that orientation exist, the triangle in the slot has
\* the anchor as corner in the matching role, and anchor (1,1) of a 3 x 3
\* grid has tT and tB populated.
C18_AnchorSlots ==
  SlotsDone =>
    /\ \A a \in DOMAIN anchors :
         LET an == anchors[a]
         IN /\ SlotIffBoth(an.tT, an.aTL, an.aTR)
            /\ SlotIffBoth(an.tB, an.aBL, an.aBR)
            /\ SlotIffBoth(an.tLT, an.aL, an.aTL)
            /\ SlotIffBoth(an.tRT, an.aR, an.aTR)
            /\ SlotIffBoth(an.tLB, an.aL, an.aBL)
            /\ SlotIffBoth(an.tRB, an.aR, an.aBR)
            /\ \A s \in {an.tT, an.tB, an.tLT, an.tRT, an.tLB, an.tRB} \ {Nil} :
                 s \in TriRefs
            /\ an.tT # Nil => triangles[an.tT].aB = a
            /\ an.tB # Nil => triangles[an.tB].aT = a
            /\ an.tLT # Nil => triangles[an.tLT].aR = a /\ triangles[an.tLT].aT # Nil
            /\ an.tLB # Nil => triangles[an.tLB].aR = a /\ triangles[an.tLB].aB # Nil
            /\ an.tRT # Nil => triangles[an.tRT].aL = a /\ triangles[an.tRT].aT # Nil
            /\ an.tRB # Nil => triangles[an.tRB].aL = a /\ triangles[an.tRB].aB # Nil
    /\ (rows = 3 /\ cols = 3) =>
         /\ anchors[AnchorRef(1, 1, 3)].tT # Nil
         /\ anchors[AnchorRef(1, 1, 3)].tB # Nil

\* a 3 x 3 grid after the anchor loop: (1,1) has all six slots, (0,0) has not
C18_Witness ==
  /\ SlotsDone /\ rows = 3 /\ cols = 3
  /\ \A s \in {"tT", "tB", "tLT", "tRT", "tLB", "tRB"} :
       anchors[AnchorRef(1, 1, 3)][s] # Nil
  /\ anchors[AnchorRef(0, 0, 3)].tT = Nil
  /\ anchors[AnchorRef(0, 0, 3)].tRT # Nil

\* the anchor at (r, c) when that cell is on the grid
CellOrNil(r, c) ==
  IF r \in 0..(rows - 1) /\ c \in 0..(cols - 1) THEN r * cols + c + 1 ELSE Nil

\* C19: the diagonal links of the anchor at (r, c) go to the adjacent row at
\* column c-1 (left) and c (right) for even r, c and c+1 for odd r, and are
\* present exactly when that cell is on the grid; anchor links are mutually
\* inverse.
C19_DiagonalLinks ==
  pc # "start" =>
    /\ \A r \in 0..(rows - 1), c \in 0..(cols - 1) :
         LET an == anchors[r * cols + c + 1]
             left == IF r % 2 = 0 THEN c - 1 ELSE c
             right == IF r % 2 = 0 THEN c ELSE c + 1
         IN /\ an.aTL = CellOrNil(r + 1, left)
            /\ an.aTR = CellOrNil(r + 1, right)
            /\ an.aBL = CellOrNil(r - 1, left)
            /\ an.aBR = CellOrNil(r - 1, right)
    /\ \A a, b \in DOMAIN anchors :
         /\ anchors[a].aR = b <=> anchors[b].aL = a
         /\ anchors[a].aTL = b <=> anchors[b].aBR = a
         /\ anchors[a].aTR = b <=> anchors[b].aBL = a

\* a linked 3 x 3 grid: the odd-row anchor (1,2) has no right diagonals, the
\* even-row anchor (0,0) no left ones, and (1,1) has all four
C19_Witness ==
  /\ pc = "slots" /\ rows = 3 /\ cols = 3
  /\ anchors[AnchorRef(1, 2, 3)].aTR = Nil
  /\ anchors[AnchorRef(1, 2, 3)].aTL = AnchorRef(2, 2, 3)
  /\ anchors[AnchorRef(0, 0, 3)].aTL = Nil
  /\ anchors[AnchorRef(1, 1, 3)].aBL = AnchorRef(0, 1, 3)
  /\ anchors[AnchorRef(1, 1, 3)].aBR = AnchorRef(0, 2, 3)

\* ------------------------------------------------------------------------
\* Further properties of the propagation engine and the fade sweep
\* ------------------------------------------------------------------------

\* the step registers the triangle of head h, replacing that key's object
Replaces(key) == pc = "move" /\ key = animHeads[h + 1].triangle

\* C12: the lightness of an AnimatedTriangle never increases from step to
\* step while the object exists, is never negative, and after a sweep a
\* swept colour below the fade threshold is exactly black.
C12_FadeMonotone ==
  [][/\ setupColor' >= 0
     /\ pc # "setup" => setupColor' <= setupColor
     /\ \A j \in 1..Len(fadingTriangles') :
          EntryLight(fadingTriangles', j, setupColor') >= 0
     /\ \A k \in 1..Len(fadingTriangles), j \in 1..Len(fadingTriangles') :
          (fadingTriangles'[j].key = fadingTriangles[k].key
             /\ ~Replaces(fadingTriangles[k].key)) =>
            EntryLight(fadingTriangles', j, setupColor') <=
              EntryLight(fadingTriangles, k, setupColor)
     /\ \A k \in 1..Len(animHeads) :
          (Len(animHeads') = Len(animHeads) /\ ~(pc = "move" /\ k = h + 1)) =>
            Lightness(animHeads'[k].color, setupColor') <=
              Lightness(animHeads[k].color, setupColor)
     /\ pc = "sweep" =>
          /\ \A k \in 1..Len(fadingTriangles) :
               LET written == colors'[fadingTriangles[k].val.index]
               IN /\ written >= 0
                  /\ written <= EntryLight(fadingTriangles, k, setupColor)
                  /\ written < fadeInc => written = 0
          /\ \A j \in 1..Len(fadingTriangles') :
               EntryLight(fadingTriangles', j, setupColor') < fadeInc =>
                 EntryLight(fadingTriangles', j, setupColor') = 0
          /\ (setupColor' # setupColor /\ setupColor' < fadeInc) =>
               setupColor' = 0
    ]_vars

\* after a sweep: the setup colour has gone black, an entry is part faded,
\* and an entry that was fading when the tick began has been removed
C12_Witness ==
  /\ pc = "idle" /\ setupColor = 0
  /\ \E k \in 1..Len(fadingTriangles) :
       /\ EntryLight(fadingTriangles, k, setupColor) > 0
       /\ EntryLight(fadingTriangles, k, setupColor) < InitLightness
  /\ tickStartKeys \ FadingKeys # {}

\* C13: in a tick the heads move one after the other, each exactly once, to
\* the tL, tR or back neighbour of the triangle it is on (never the same
\* triangle); the previous-head record becomes the triangle left, which is a
\* key of the fading set when the head transitions are complete; with
\* rows, cols >= 2 no step ends the walk.
C13_HeadsStep ==
  [][/\ (pc = "move" /\ rows >= 2 /\ cols >= 2) => pc' # "animateThrew"
     /\ (pc = "move" /\ pc' # "animateThrew") =>
          LET old == animHeads[h + 1].triangle
              new == animHeads'[h + 1].triangle
          IN /\ new \in TriRefs
             /\ new # old
             /\ \E k \in 1..3 : NeighbourSlots(old)[k] = new
             /\ animPrevHeads'[h + 1].triangle = old
             /\ old \in MapKeys(fadingTriangles')
             /\ h' = h + 1
             /\ \A k \in HeadRefs \ {h + 1} :
                  /\ animHeads'[k] = animHeads[k]
                  /\ animPrevHeads'[k] = animPrevHeads[k]
     /\ (pc \notin {"move", "setup"}) =>
          animHeads' = animHeads /\ animPrevHeads' = animPrevHeads
     /\ pc' = "sweep" =>
          /\ h' = heads
          /\ \A k \in HeadRefs :
               animPrevHeads'[k].triangle \in MapKeys(fadingTriangles')
     /\ pc \in {"ready", "idle"} => pc' = "weigh" /\ h' = 0
     /\ pc = "sweep" => pc' = "idle"
    ]_vars

\* two heads have both completed their move in a tick that is not the first
C13_Witness ==
  /\ pc = "sweep" /\ heads = 2 /\ tickStartKeys # {}
  /\ animHeads[1].triangle # animPrevHeads[1].triangle
  /\ animHeads[2].triangle # animPrevHeads[2].triangle
  /\ animPrevHeads[1].triangle \in FadingKeys
  /\ animPrevHeads[2].triangle \in FadingKeys

\* the triangles vacated in the running tick by the heads before head h
VacatedEarlier == {animPrevHeads[j].triangle : j \in 1..h}

\* the fade state is left alone in the head phase of a tick: no colour is
\* darkened, no buffer entry written, no entry removed
HeadPhaseKeepsFade ==
  (pc \in {"weigh", "draw", "move"}) =>
    /\ setupColor' = setupColor
    /\ colors' = colors
    /\ \A k \in 1..Len(fadingTriangles) :
         /\ fadingTriangles[k].key \in MapKeys(fadingTriangles')
         /\ ~Replaces(fadingTriangles[k].key) =>
              \E j \in 1..Len(fadingTriangles') :
                fadingTriangles'[j] = fadingTriangles[k]

\* the heads are taken in list order and the sweep runs after the last one
HeadsInOrderThenSweep ==
  /\ (pc = "move" /\ pc' # "animateThrew") =>
       /\ h' = h + 1
       /\ pc' = IF h + 1 < heads THEN "weigh" ELSE "sweep"
  /\ pc = "sweep" => h = heads

\* C14 as claimed: when head h computes its weights the fading set holds the
\* triangles vacated earlier in the tick by heads 0..h-1, each of which
\* weighs 2 for h, and holds h's own triangle only if that was fading when
\* the tick began; nothing is darkened or removed before the sweep.
C14_AsClaimed ==
  [][/\ HeadsInOrderThenSweep
     /\ HeadPhaseKeepsFade
     /\ pc' = "draw" =>
          /\ VacatedEarlier' \subseteq MapKeys(fadingTriangles')
          /\ \A k \in 1..3 :
               nextProps'[k].tri \in VacatedEarlier' =>
                 nextProps'[k].favour = 2
          /\ animHeads'[h' + 1].triangle \in MapKeys(fadingTriangles') =>
               animHeads'[h' + 1].triangle \in tickStartKeys'
    ]_vars

\* C14 amended: a triangle vacated earlier in the tick weighs 2 for h unless
\* it is h's own previous triangle, which weighs 1; the fading set holds h's
\* own triangle only if that was fading when the tick began or was vacated
\* earlier in the tick by another head standing on it; the fading set is
\* exactly the keys of the tick's beginning and the triangles vacated so far.
C14_HeadsBeforeSweep ==
  [][/\ HeadsInOrderThenSweep
     /\ HeadPhaseKeepsFade
     /\ pc' = "draw" =>
          /\ VacatedEarlier' \subseteq MapKeys(fadingTriangles')
          /\ MapKeys(fadingTriangles') = tickStartKeys' \cup VacatedEarlier'
          /\ \A k \in 1..3 :
               nextProps'[k].tri \in VacatedEarlier' =>
                 nextProps'[k].favour =
                   IF nextProps'[k].tri = animPrevHeads'[h' + 1].triangle
                   THEN 1 ELSE 2
          /\ animHeads'[h' + 1].triangle \in MapKeys(fadingTriangles') =>
               animHeads'[h' + 1].triangle \in
                 tickStartKeys' \cup VacatedEarlier'
    ]_vars

\* the second head weighs a candidate that the first head vacated in this
\* tick and that was not fading when the tick began
C14_Witness ==
  /\ pc = "draw" /\ h = 1
  /\ animPrevHeads[1].triangle \notin tickStartKeys
  /\ \E k \in 1..3 : /\ nextProps[k].tri = animPrevHeads[1].triangle
                     /\ nextProps[k].favour = 2

\* least number of fade steps that cover lightness l
CeilSteps(l) == (l + fadeInc - 1) \div fadeInc

\* C16: an entry registered with the head lightness L and not registered
\* again is gone from the fading set within ceil(L / fade step) sweeps: no
\* entry of the set has survived that many sweeps.
C16_EntriesLeave ==
  /\ DOMAIN sweepsSeen = FadingKeys
  /\ \A T \in FadingKeys : sweepsSeen[T] < CeilSteps(InitLightness)

\* after a sweep an entry that was fading when the tick began is gone, and
\* another has survived a sweep
C16_Witness ==
  /\ pc = "idle"
  /\ tickStartKeys \ FadingKeys # {}
  /\ \E T \in FadingKeys : sweepsSeen[T] >= 1

\* the indices of the triangles that are keys of the fading set
FadingIndices == {triangles[T].i : T \in FadingKeys}

C20_IndexMatchesTriangle ==
  (Animating /\ rows >= 2 /\ cols >= 2) =>
    /\ \A k \in 1..Len(fadingTriangles) :
         /\ fadingTriangles[k].val.triangle = fadingTriangles[k].key
         /\ fadingTriangles[k].key \in TriRefs
         /\ fadingTriangles[k].val.index = triangles[fadingTriangles[k].key].i
         /\ fadingTriangles[k].val.index \in DOMAIN colors
         /\ fadingTriangles[k].val.index \in DOMAIN positions
    /\ \A k \in 1..Len(animHeads) :
         /\ animHeads[k].triangle \in TriRefs
         /\ animHeads[k].index = triangles[animHeads[k].triangle].i
         /\ animHeads[k].index >= 0
         /\ animHeads[k].index < Len(triangles)

\* a sweep is about to run over entries of two different ticks
C20_Witness ==
  /\ pc = "sweep" /\ rows >= 2 /\ cols >= 2
  /\ \E k, j \in 1..Len(fadingTriangles) :
       /\ EntryLight(fadingTriangles, k, setupColor) = InitLightness
       /\ EntryLight(fadingTriangles, j, setupColor) < InitLightness
       /\ fadingTriangles[k].val.index # fadingTriangles[j].val.index

====
